---------------------------- MODULE Spec2Model ----------------------------
(***************************************************************************)
(* Model of scripts/bili_sms_login.py and scripts/bili_qr_confirm.py:      *)
(* the request signer, the SMS login flow, the credential file and the QR  *)
(* confirmation, with the remote service and the operator as the           *)
(* nondeterministic environment.                                           *)
(***************************************************************************)
EXTENDS Integers, Sequences, FiniteSets, TLC

VARIABLES
    script,     \* the program run: "sms_login" (bili_sms_login.py) or "qr_confirm" (bili_qr_confirm.py)
    environ,    \* os.environ restricted to BILI_APP_KEY / BILI_APP_SEC: name -> value
    APP_KEY,    \* module global, bili_sms_login.py:35
    APP_SEC,    \* module global, bili_sms_login.py:36
    argv,       \* the command line: [cmd, tel, cid, sms_code, qr]
    args,       \* argparse.Namespace: attribute name -> value
    pc,         \* position of the running program
    err,        \* the exception that ended the run (NoErr while running or on success)
    tel,        \* run_sms_login local
    cid,        \* run_sms_login local
    key_data,   \* run_sms_login local: what get_web_key returned
    sms_resp,   \* run_sms_login local: the SMS-send response in hand
    captcha,    \* the CaptchaInfo c built from a human-verification URL
    sms_code,   \* run_sms_login local
    login_resp, \* run_sms_login local
    result,     \* the confirmation response returned to run_qr_confirm / main
    net,        \* every HTTP exchange so far, in order: the request and its response
    jar,        \* cookies set on the HTTP session: name -> value
    file,       \* the credential file on disk
    writes,     \* number of writes to the credential file in this run
    clock,      \* the wall clock, in milliseconds, at its last reading
    call,       \* input of the function applied (function specifications)
    ret         \* its result (function specifications)

vars == <<script, environ, APP_KEY, APP_SEC, argv, args, pc, err, tel, cid,
          key_data, sms_resp, captcha, sms_code, login_resp, result, net, jar,
          file, writes, clock, call, ret>>

-----------------------------------------------------------------------------
(* Python values.  Every value carries its type tag; a dict is a function  *)
(* from string keys, a list a sequence.                                    *)

PyNone == [t |-> "none"]
PyStr(s) == [t |-> "str", s |-> s]
PyInt(n) == [t |-> "int", n |-> n]
PyDict(d) == [t |-> "dict", d |-> d]
PyList(l) == [t |-> "list", l |-> l]

EmptyDict == [k \in {} |-> PyNone]

\* bool(v)
Truthy(v) ==
    CASE v.t = "none" -> FALSE
      [] v.t = "str"  -> v.s # ""
      [] v.t = "int"  -> v.n # 0
      [] v.t = "dict" -> DOMAIN v.d # {}
      [] v.t = "list" -> Len(v.l) > 0

\* d.get(k) on a dict value
Get(v, k) == IF k \in DOMAIN v.d THEN v.d[k] ELSE PyNone

\* (x or y)
Or(x, y) == IF Truthy(x) THEN x ELSE y

Digits == <<"0", "1", "2", "3", "4", "5", "6", "7", "8", "9">>

RECURSIVE NatToStr(_)
NatToStr(n) == IF n < 10 THEN Digits[n + 1]
               ELSE NatToStr(n \div 10) \o Digits[(n % 10) + 1]

\* str(v) for the scalar values
Str(v) ==
    CASE v.t = "none" -> "None"
      [] v.t = "str"  -> v.s
      [] v.t = "int"  -> IF v.n < 0 THEN "-" \o NatToStr(0 - v.n) ELSE NatToStr(v.n)

\* v.strip() on the strings of the model: surrounding blanks removed
Strip(s) ==
    CASE s = " "    -> ""
      [] s = " V1 " -> "V1"
      [] s = "138 " -> "138"
      [] OTHER      -> s

-----------------------------------------------------------------------------
(* Signing, bili_sms_login.py:33-36 and 99-105.                            *)

DEFAULT_APP_KEY == "dfca71928277209b"
DEFAULT_APP_SEC == "b5475a8825547a4fc26c7d518eaaa02e"

\* os.getenv(name, default)
Getenv(env, name, default) == IF name \in DOMAIN env THEN env[name] ELSE default

\* hashlib.md5(s).hexdigest(): an injective symbol of its input
Md5(s) == "md5<" \o s \o ">"

STATISTICS == "{\"appId\":5,\"platform\":3,\"version\":\"2.0.1\",\"abtest\":\"\"}"

\* urllib.parse.quote_plus on the strings of the model; every string not
\* listed consists of unreserved characters and is left as it is
QuotePlus(s) ==
    CASE s = STATISTICS -> "%7B%22appId%22%3A5%2C%22platform%22%3A3%2C%22version%22%3A%222.0.1%22%2C%22abtest%22%3A%22%22%7D"
      [] s = "bilibili%3A%2F%2Fuser_center%2Fmine" -> "bilibili%253A%252F%252Fuser_center%252Fmine"
      [] s = "main.my-information.my-login.0.click" -> s
      [] s = "a b" -> "a+b"
      [] s = "k&=" -> "k%26%3D"
      [] s = "RSA(PEM)%3D" -> "RSA%28PEM%29%253D"
      [] OTHER -> s

\* every key the program or the function specification passes to app_sign,
\* in the order sorted() gives them (code-point order)
KeyOrder == <<"appkey", "bili_local_id", "build", "buvid", "c_locale",
              "captcha_key", "channel", "cid", "code", "device", "device_id",
              "device_name", "device_platform", "disable_rcmd", "dt",
              "from_pv", "from_url", "gee_challenge", "gee_seccode",
              "gee_validate", "local_id", "login_session_id", "mobi_app",
              "platform", "recaptcha_token", "s_locale", "sign",
              "statistics", "tel", "ts">>

\* sorted(data.items(), key=lambda kv: kv[0]), as the sequence of keys
SortedKeys(data) == SelectSeq(KeyOrder, LAMBDA k : k \in DOMAIN data)

RECURSIVE JoinPairs(_, _)
JoinPairs(data, keys) ==
    IF keys = <<>> THEN ""
    ELSE LET k == Head(keys)
             one == QuotePlus(k) \o "=" \o QuotePlus(data[k])
         IN IF Len(keys) = 1 THEN one
            ELSE one \o "&" \o JoinPairs(data, Tail(keys))

\* urlencode(items) for the items of data taken in the order keys
UrlEncode(data, keys) == JoinPairs(data, keys)

\* line 100: the entries kept, as strings
Kept(params) ==
    LET ks == {k \in DOMAIN params :
                  params[k] # PyNone /\ params[k] # PyStr("")}
    IN [k \in ks |-> Str(params[k])]

\* a variant to tell apart: the signature taken before the timestamp is set
app_sign_early(params, now, key, sec) ==
    LET d0 == Kept(params)
        d1 == [k \in DOMAIN d0 \cup {"appkey"} |->
                  IF k = "appkey" THEN key ELSE d0[k]]
        d2 == [k \in DOMAIN d1 \cup {"ts"} |->
                  IF k = "ts" THEN NatToStr(now \div 1000) ELSE d1[k]]
        sign == Md5(UrlEncode(d1, SortedKeys(d1)) \o sec)
    IN [k \in DOMAIN d2 \cup {"sign"} |-> IF k = "sign" THEN sign ELSE d2[k]]

\* app_sign(params) at clock reading now (milliseconds), with the globals
\* APP_KEY = key and APP_SEC = sec
app_sign(params, now, key, sec) ==
    LET d0 == Kept(params)
        d1 == [k \in DOMAIN d0 \cup {"appkey"} |->
                  IF k = "appkey" THEN key ELSE d0[k]]
        d2 == [k \in DOMAIN d1 \cup {"ts"} |->
                  IF k = "ts" THEN NatToStr(now \div 1000) ELSE d1[k]]
        sign == Md5(UrlEncode(d2, SortedKeys(d2)) \o sec)
    IN [k \in DOMAIN d2 \cup {"sign"} |-> IF k = "sign" THEN sign ELSE d2[k]]

-----------------------------------------------------------------------------
(* JSON text: what json.dumps writes and json.loads reads.                 *)

JNull == [j |-> "null"]
JString(s) == [j |-> "string", s |-> s]
JNumber(n) == [j |-> "number", n |-> n]
JObject(m) == [j |-> "object", m |-> m]
JArray(a) == [j |-> "array", a |-> a]

RECURSIVE Dumps(_)
\* json.dumps(v)
Dumps(v) ==
    CASE v.t = "none" -> JNull
      [] v.t = "str"  -> JString(v.s)
      [] v.t = "int"  -> JNumber(v.n)
      [] v.t = "dict" -> JObject([k \in DOMAIN v.d |-> Dumps(v.d[k])])
      [] v.t = "list" -> JArray([i \in 1..Len(v.l) |-> Dumps(v.l[i])])

RECURSIVE Loads(_)
\* json.loads(text)
Loads(x) ==
    CASE x.j = "null"   -> PyNone
      [] x.j = "string" -> PyStr(x.s)
      [] x.j = "number" -> PyInt(x.n)
      [] x.j = "object" -> PyDict([k \in DOMAIN x.m |-> Loads(x.m[k])])
      [] x.j = "array"  -> PyList([i \in 1..Len(x.a) |-> Loads(x.a[i])])

NoFile == [t |-> "nofile"]
FileText(doc) == [t |-> "text", doc |-> doc]

-----------------------------------------------------------------------------
(* Errors and HTTP responses.                                              *)

NoErr == [exc |-> "", msg |-> "", status |-> 0, body |-> ""]
Exc(exc, msg) == [exc |-> exc, msg |-> msg, status |-> 0, body |-> ""]

NotJson == [t |-> "notjson"]

\* a response: HTTP status, the parsed body (NotJson when resp.json() raises)
\* and the body text (kept only for bodies that are not JSON)
Resp(status, json, text) == [status |-> status, json |-> json, text |-> text]

\* resp.text[:400].replace("\n", "\\n") on the body texts of the model
Preview(text) ==
    CASE text = "<html>\nblocked" -> "<html>\\nblocked"
      [] OTHER -> text

\* parse_json_or_raise(resp, api_name), bili_sms_login.py:112-120: the parsed
\* body, or the error raised
parse_json_or_raise(resp, api_name) ==
    IF resp.json # NotJson
    THEN [ok |-> TRUE, val |-> resp.json, err |-> NoErr]
    ELSE [ok |-> FALSE, val |-> PyNone,
          err |-> [exc |-> "ApiError", msg |-> "non_json:" \o api_name,
                   status |-> resp.status, body |-> Preview(resp.text)]]

\* data.get("code") != 0
CodeNonZero(v) == Get(v, "code") # PyInt(0)

-----------------------------------------------------------------------------
(* The environment of a run: process environment, command line, operator   *)
(* input, clock readings and the remote service's responses.               *)

D1(k1, v1) == k1 :> v1
D2(k1, v1, k2, v2) == (k1 :> v1) @@ (k2 :> v2)

\* os.environ: each override absent, set, or (the key) set to the empty string
Environs ==
    { e \in UNION { [ks -> {"", "EK", "ES"}] :
                        ks \in SUBSET {"BILI_APP_KEY", "BILI_APP_SEC"} } :
        /\ ("BILI_APP_KEY" \in DOMAIN e => e["BILI_APP_KEY"] \in {"", "EK"})
        /\ ("BILI_APP_SEC" \in DOMAIN e => e["BILI_APP_SEC"] = "ES") }

\* clock readings, in milliseconds
Clock == {1000999, 1001000}

\* what the operator types at a prompt
TelTyped == {"138 "}
CidTyped == {"", "x"}
CodeTyped == {"4321"}
GeeTyped == {" V1 "}

\* int(s) for what is typed at the country-code prompt; -1: ValueError
IntOf(s) == CASE s = "86" -> 86 [] OTHER -> -1

\* the QR text given as --qr in a run of a program, as a sequence of pieces
\* of text (see the URL section below)
QrArgs ==
    { <<"A">>,
      <<" ", "A", " ">>,
      <<"https://", "h", "?", "auth_code", "=", "A">>,
      <<"https://", "h", "?", "x", "=", "B">>,
      <<"https://", "h", "?", "qrcode_key", "=", "B">>,
      <<"https://", "h", "?", "auth_code", "=", "A", "&", "qrcode_key", "=", "B">>,
      <<"https://", "h", "?", "x", "qrcode_key", "=", "B", "&", "auth_code", "=", "A">>,
      <<"https://", "h", "?", "auth_code", "=", "A", "#", "qrcode_key", "=", "B">>,
      <<"https://", "h", "?", "qrcode%5Fkey", "=", "B", "&", "code", "=", "A">>,
      <<"h", "https://", "h", "?", "code", "=", "A">> }

NoArg == <<>>

\* command lines of bili_sms_login.py
SmsArgvs ==
    {[cmd |-> "", tel |-> PyNone, cid |-> PyNone, sms_code |-> PyNone, qr |-> NoArg]}
    \cup {[cmd |-> "sms-login", tel |-> PyNone, cid |-> PyNone, sms_code |-> PyNone, qr |-> NoArg],
          [cmd |-> "sms-login", tel |-> PyStr("138"), cid |-> PyNone, sms_code |-> PyNone, qr |-> NoArg],
          [cmd |-> "sms-login", tel |-> PyStr("139"), cid |-> PyInt(86), sms_code |-> PyStr("1234"),
           qr |-> NoArg]}
    \cup [cmd : {"qr-confirm"}, tel : {PyNone}, cid : {PyNone}, sms_code : {PyNone},
          qr : QrArgs \cup {NoArg}]

\* command lines of bili_qr_confirm.py
QrArgvs ==
    [cmd : {""}, tel : {PyNone}, cid : {PyNone}, sms_code : {PyNone},
     qr : QrArgs \cup {NoArg}]

\* key endpoint bodies
KeyOk == PyDict(D2("code", PyInt(0), "data", PyDict(D2("hash", PyStr("H"), "key", PyStr("PEM")))))
KeyBodies ==
    { KeyOk,
      PyDict(D2("code", PyInt(0), "data", PyDict(D1("hash", PyStr("H"))))),
      PyDict(D1("code", PyInt(0))),
      PyDict(D2("code", PyInt(0), "data", PyNone)),
      PyDict(D2("code", PyInt(-1), "data", PyDict(D1("key", PyStr("PEM"))))) }

HtmlBody == "<html>\nblocked"

KeyResponses ==
    { Resp(200, b, "") : b \in KeyBodies }
    \cup { Resp(502, KeyOk, ""), Resp(200, NotJson, HtmlBody),
           Resp(502, NotJson, "not json") }

\* SMS-send bodies
CaptchaUrl == "https://c/v?recaptcha_token=T&gee_gt=G&gee_challenge=C"
CaptchaUrlShort == "https://c/v?gee_gt=G"
SmsBodies ==
    { PyDict(D2("code", PyInt(0), "data", PyDict(D1("captcha_key", PyStr("CK"))))),
      PyDict(D2("code", PyInt(0), "data", PyDict(D1("captcha_key", PyStr(""))))),
      PyDict(D2("code", PyInt(-105), "data", PyDict(D1("recaptcha_url", PyStr(CaptchaUrl))))),
      PyDict(D2("code", PyInt(-105), "data",
                PyDict(D2("recaptcha_url", PyStr(CaptchaUrlShort), "captcha_key", PyStr("CK"))))),
      PyDict(D1("code", PyInt(86200))),
      PyDict(D1("data", PyDict(D1("captcha_key", PyStr("CK"))))) }

SmsResponses ==
    { Resp(200, b, "") : b \in SmsBodies } \cup { Resp(502, NotJson, "not json") }

\* login bodies
TokenInfo == PyDict(("access_token" :> PyStr("AT")) @@ ("refresh_token" :> PyStr("RT"))
                    @@ ("expires_in" :> PyInt(3600)) @@ ("mid" :> PyInt(42)))
Cookie(n, v) == PyDict(D2("name", n, "value", v))
CookieInfo == PyDict(D1("cookies",
                 PyList(<<Cookie(PyStr("SESSDATA"), PyStr("s1")),
                          Cookie(PyStr("bili_jct"), PyStr("j1"))>>)))
LoginDatas ==
    { PyDict(D2("token_info", TokenInfo, "cookie_info", CookieInfo)),
      PyDict(D1("token_info", TokenInfo)),
      PyDict(D1("cookie_info", CookieInfo)),
      PyDict(D2("token_info", TokenInfo, "cookie_info", PyDict(EmptyDict))),
      PyDict(D2("token_info", TokenInfo, "cookie_info", PyDict(D1("cookies", PyList(<<>>))))) }
LoginBodies ==
    { PyDict(D2("code", PyInt(0), "data", d)) : d \in LoginDatas }
    \cup { PyDict(D2("code", PyInt(0), "data", PyNone)),
           PyDict(D1("code", PyInt(0))),
           PyDict(D2("code", PyInt(-400), "data",
                     PyDict(D2("token_info", TokenInfo, "cookie_info", CookieInfo)))) }

LoginResponses ==
    { Resp(200, b, "") : b \in LoginBodies } \cup { Resp(200, NotJson, HtmlBody) }

\* confirmation bodies
ConfirmResponses ==
    { Resp(200, PyDict(D1("code", PyInt(0))), ""),
      Resp(200, PyDict(D1("code", PyInt(86038))), ""),
      Resp(502, NotJson, "not json") }

-----------------------------------------------------------------------------
(* QR text and URLs.  A text is a sequence of pieces, each piece a run of  *)
(* characters that the functions below never split: " " is white space,    *)
(* "http://" and "https://" the scheme prefixes, "?", "&", "=", "#" the    *)
(* URL delimiters, "+", "%20" and "qrcode%5Fkey" percent/plus-encoded      *)
(* text, and every other piece plain text.                                 *)

Schemes == {"http://", "https://"}

\* index of the first occurrence of x in seq, 0 when there is none
IndexOf(seq, x) ==
    IF \E i \in 1..Len(seq) : seq[i] = x
    THEN CHOOSE i \in 1..Len(seq) : seq[i] = x /\ \A j \in 1..(i - 1) : seq[j] # x
    ELSE 0

RECURSIVE LStrip(_)
LStrip(raw) == IF raw # <<>> /\ Head(raw) = " " THEN LStrip(Tail(raw)) ELSE raw

RECURSIVE RStrip(_)
RStrip(raw) == IF raw # <<>> /\ raw[Len(raw)] = " "
               THEN RStrip(SubSeq(raw, 1, Len(raw) - 1)) ELSE raw

\* raw.strip()
TStrip(raw) == RStrip(LStrip(raw))

\* raw.startswith(("http://", "https://"))
StartsWithScheme(raw) == raw # <<>> /\ raw[1] \in Schemes

\* "http://" in raw or "https://" in raw
ContainsScheme(raw) == \E i \in 1..Len(raw) : raw[i] \in Schemes

\* "qrcode_key=" in raw
ContainsQrcodeKeyEq(raw) ==
    \E i \in 1..(Len(raw) - 1) : raw[i] = "qrcode_key" /\ raw[i + 1] = "="

\* urlparse(raw).query: the text between the first "?" and the fragment
UrlQuery(raw) ==
    LET h == IndexOf(raw, "#")
        u == IF h = 0 THEN raw ELSE SubSeq(raw, 1, h - 1)
        q == IndexOf(u, "?")
    IN IF q = 0 THEN <<>> ELSE SubSeq(u, q + 1, Len(u))

RECURSIVE SplitOn(_, _)
\* text.split(sep)
SplitOn(text, sep) ==
    LET i == IndexOf(text, sep)
    IN IF i = 0 THEN <<text>>
       ELSE <<SubSeq(text, 1, i - 1)>> \o SplitOn(SubSeq(text, i + 1, Len(text)), sep)

\* unquote(piece.replace("+", " "))
UnquotePiece(p) ==
    CASE p = "+" -> " "
      [] p = "%20" -> " "
      [] p = "qrcode%5Fkey" -> "qrcode_key"
      [] OTHER -> p

Unquote(text) == [i \in 1..Len(text) |-> UnquotePiece(text[i])]

\* parse_qs(query) as the sequence of (name, value) pairs it keeps: fields
\* without "=" and fields with an empty value are dropped
ParseQsl(query) ==
    LET fields == SplitOn(query, "&")
        good == SelectSeq(fields, LAMBDA f :
                    LET e == IndexOf(f, "=") IN e # 0 /\ e < Len(f))
    IN [i \in 1..Len(good) |->
          LET f == good[i]
              e == IndexOf(f, "=")
          IN [name |-> Unquote(SubSeq(f, 1, e - 1)),
              value |-> Unquote(SubSeq(f, e + 1, Len(f)))]]

\* (parse_qs(query).get(key) or [""])[0].strip()
FirstValue(query, key) ==
    LET hits == SelectSeq(ParseQsl(query), LAMBDA nv : nv.name = <<key>>)
    IN IF hits = <<>> THEN <<>> ELSE TStrip(hits[1].value)

\* a variant to tell apart: the keys tried in the opposite order
AuthKeysReversed == <<"code", "authCode", "auth_code">>

\* the keys tried, in the order of the loop
AuthKeys == <<"auth_code", "authCode", "code">>

\* the loop over ("auth_code", "authCode", "code"): the first stripped value
\* that is not empty, <<>> when there is none
FirstAuthValue(query) ==
    LET found == SelectSeq(AuthKeys, LAMBDA k : FirstValue(query, k) # <<>>)
    IN IF found = <<>> THEN <<>> ELSE FirstValue(query, found[1])

Ok(v) == [ok |-> TRUE, val |-> v, err |-> NoErr]
Raise(e) == [ok |-> FALSE, val |-> <<>>, err |-> e]

\* parse_auth_code, bili_sms_login.py:132-142
parse_auth_code(qr_url_or_code) ==
    LET raw == TStrip(qr_url_or_code)
    IN IF ~ContainsScheme(raw) THEN Ok(raw)
       ELSE LET v == FirstAuthValue(UrlQuery(raw))
            IN IF v # <<>> THEN Ok(v)
               ELSE Raise(Exc("SystemExit", "no_auth_code"))

\* extract_auth_code, bili_qr_confirm.py:53-71
extract_auth_code(qr_url_or_code) ==
    LET raw == TStrip(qr_url_or_code)
    IN IF raw = <<>> THEN Raise(Exc("ConfirmError", "empty"))
       ELSE IF ~StartsWithScheme(raw) THEN Ok(raw)
       ELSE LET v == FirstAuthValue(UrlQuery(raw))
            IN IF v # <<>> THEN Ok(v)
               ELSE Raise(Exc("ConfirmError", "no_auth_code"))

\* extract_qrcode_key, bili_qr_confirm.py:74-80
extract_qrcode_key(qr_url) ==
    LET v == FirstValue(UrlQuery(TStrip(qr_url)), "qrcode_key")
    IN IF v = <<>> THEN Raise(Exc("ConfirmError", "no_qrcode_key")) ELSE Ok(v)

-----------------------------------------------------------------------------
(* The credential file, bili_sms_login.py:280-300 and 145-148,             *)
(* bili_qr_confirm.py:44-50.                                               *)

BadText == [t |-> "garbage"]

\* the names of the comprehension at line 283: entries with a truthy name
CookieNames(cookie_list) ==
    { Get(cookie_list.l[i], "name").s :
        i \in { j \in 1..Len(cookie_list.l) : Truthy(Get(cookie_list.l[j], "name")) } }

\* a variant to tell apart: the first entry of a name wins and nameless entries are kept
\* under the empty name
CookieDictFirst(cookie_list) ==
    [n \in { Str(Or(Get(cookie_list.l[i], "name"), PyStr(""))) : i \in 1..Len(cookie_list.l) } |->
        LET first == CHOOSE i \in 1..Len(cookie_list.l) :
                       /\ Str(Or(Get(cookie_list.l[i], "name"), PyStr(""))) = n
                       /\ \A j \in 1..(i - 1) :
                              Str(Or(Get(cookie_list.l[j], "name"), PyStr(""))) # n
        IN Get(cookie_list.l[first], "value")]

\* {c.get("name"): c.get("value") for c in cookie_list if c.get("name")}:
\* a later entry of the same name replaces an earlier one
CookieDict(cookie_list) ==
    [n \in CookieNames(cookie_list) |->
        LET last == CHOOSE i \in 1..Len(cookie_list.l) :
                       /\ Get(cookie_list.l[i], "name") = PyStr(n)
                       /\ \A j \in (i + 1)..Len(cookie_list.l) :
                              Get(cookie_list.l[j], "name") # PyStr(n)
        IN Get(cookie_list.l[last], "value")]

\* the record save_credentials serialises, lines 281-295
CredentialRecord(login_data, now) ==
    LET token == Or(Get(login_data, "token_info"), PyDict(EmptyDict))
        cookie_list == Or(Get(Or(Get(login_data, "cookie_info"), PyDict(EmptyDict)),
                              "cookies"), PyList(<<>>))
        cookies == CookieDict(cookie_list)
    IN PyDict(("saved_at" :> PyInt(now \div 1000))
              @@ ("access_token" :> Get(token, "access_token"))
              @@ ("refresh_token" :> Get(token, "refresh_token"))
              @@ ("expires_in" :> Get(token, "expires_in"))
              @@ ("mid" :> Get(token, "mid"))
              @@ ("cookies" :> PyDict(cookies))
              @@ ("raw_token_info" :> token)
              @@ ("raw_cookie_info" :> cookie_list))

\* save_credentials(login_data, output) at clock reading now: the content
\* written over whatever the file held
save_credentials(login_data, now) ==
    FileText(Dumps(CredentialRecord(login_data, now)))

\* load_saved_credentials, bili_sms_login.py:145-148
load_saved_credentials(f) ==
    IF f = NoFile THEN Raise(Exc("SystemExit", "no_cred_file"))
    ELSE IF f = BadText THEN Raise(Exc("JSONDecodeError", "cred_file"))
    ELSE Ok(Loads(f.doc))

\* load_credentials, bili_qr_confirm.py:44-50
load_credentials(f) ==
    IF f = NoFile THEN Raise(Exc("ConfirmError", "no_cred_file"))
    ELSE IF f = BadText THEN Raise(Exc("JSONDecodeError", "cred_file"))
    ELSE IF Loads(f.doc).t # "dict" THEN Raise(Exc("ConfirmError", "cred_not_object"))
    ELSE Ok(Loads(f.doc))

-----------------------------------------------------------------------------
(* bili_sms_login.py: main and the command line.                           *)

Text(x) == [t |-> "text", x |-> x]

DefaultCredFile == "bili_credentials.json"

gen_buvid3 == "6F9619FF-8B86-4D01-B42D-00CF4FC964FF00042infoc"
gen_device_id == Md5("device") \o "5a"

NoForm == [k \in {} |-> ""]
\* one HTTP exchange: the request sent and the response received
Request(api, url, data, resp) == [api |-> api, url |-> url, data |-> data, resp |-> resp]

Fail(e) == pc' = "exit" /\ err' = e

\* a variant to tell apart: only a key without a secret is refused
KeyPairInvalidKeyOnly(env) ==
    "BILI_APP_KEY" \in DOMAIN env /\ "BILI_APP_SEC" \notin DOMAIN env

\* the test of ensure_key_pair_valid, lines 66-68
KeyPairInvalid(env) ==
    LET key_set == "BILI_APP_KEY" \in DOMAIN env
        sec_set == "BILI_APP_SEC" \in DOMAIN env
    IN key_set # sec_set

\* main, line 386
EnsureKeyPairValid ==
    /\ script = "sms_login" /\ pc = "main"
    /\ IF KeyPairInvalid(environ)
       THEN Fail(Exc("SystemExit", "key_pair"))
       ELSE pc' = "parse_args" /\ err' = err
    /\ UNCHANGED <<script, environ, APP_KEY, APP_SEC, argv, args, tel, cid,
                   key_data, sms_resp, captcha, sms_code, login_resp, result,
                   net, jar, file, writes, clock, call, ret>>

\* build_parser().parse_args(), lines 368-382: the Namespace, or <<>> when
\* argparse rejects the command line.  A sub-parser's attributes exist only
\* when its subcommand was given.
Namespace(av) ==
    CASE av.cmd = "" -> D1("cmd", PyNone)
      [] av.cmd = "sms-login" ->
            ("cmd" :> PyStr("sms-login")) @@ ("tel" :> av.tel) @@ ("cid" :> av.cid)
            @@ ("sms_code" :> av.sms_code) @@ ("output" :> PyStr(DefaultCredFile))
      [] av.cmd = "qr-confirm" ->
            IF av.qr = NoArg THEN <<>>
            ELSE ("cmd" :> PyStr("qr-confirm")) @@ ("qr" :> Text(av.qr))
                 @@ ("cred" :> PyStr(DefaultCredFile))

\* main, lines 387-388
ParseArgs ==
    /\ script = "sms_login" /\ pc = "parse_args"
    /\ IF Namespace(argv) = <<>>
       THEN Fail(Exc("SystemExit", "argparse_usage")) /\ args' = args
       ELSE args' = Namespace(argv) /\ pc' = "dispatch" /\ err' = err
    /\ UNCHANGED <<script, environ, APP_KEY, APP_SEC, argv, tel, cid,
                   key_data, sms_resp, captcha, sms_code, login_resp, result,
                   net, jar, file, writes, clock, call, ret>>

\* main, lines 391-396
Dispatch ==
    /\ script = "sms_login" /\ pc = "dispatch"
    /\ pc' = IF args["cmd"] \in {PyNone, PyStr("sms-login")} THEN "run_sms_login"
             ELSE IF args["cmd"] = PyStr("qr-confirm") THEN "run_qr_confirm"
             ELSE "done"
    /\ UNCHANGED <<script, environ, APP_KEY, APP_SEC, argv, args, err, tel, cid,
                   key_data, sms_resp, captcha, sms_code, login_resp, result,
                   net, jar, file, writes, clock, call, ret>>

-----------------------------------------------------------------------------
(* run_sms_login, bili_sms_login.py:303-356, with the BiliClient calls     *)
(* it makes.                                                               *)

\* lines 308-311: tel and cid from the arguments or the prompts
ReadTelCid ==
    /\ script = "sms_login" /\ pc = "run_sms_login"
    /\ IF "tel" \notin DOMAIN args
       THEN Fail(Exc("AttributeError", "args.tel")) /\ UNCHANGED <<tel, cid>>
       ELSE /\ \E typed \in TelTyped :
                  tel' = IF Truthy(args["tel"]) THEN args["tel"] ELSE PyStr(Strip(typed))
            /\ IF args["cid"] # PyNone
               THEN cid' = args["cid"] /\ pc' = "get_web_key" /\ err' = err
               ELSE \E typed \in CidTyped :
                       LET n == IntOf(IF Strip(typed) = "" THEN "86" ELSE Strip(typed))
                       IN IF n = -1
                          THEN Fail(Exc("ValueError", "int(cid)")) /\ cid' = cid
                          ELSE cid' = PyInt(n) /\ pc' = "get_web_key" /\ err' = err
    /\ UNCHANGED <<script, environ, APP_KEY, APP_SEC, argv, args,
                   key_data, sms_resp, captcha, sms_code, login_resp, result,
                   net, jar, file, writes, clock, call, ret>>

\* lines 314-319: what run_sms_login raises for an exception e of get_web_key
WebKeyFailed(e) ==
    [exc |-> "SystemExit", msg |-> "web_key:" \o e.exc \o ":" \o e.msg,
     status |-> e.status, body |-> e.body]

\* a variant to tell apart: a primary response that is not 200 is parsed as well
PrimaryParsedAny(resp) == TRUE

\* get_web_key, line 174: whether the primary response is parsed at all
PrimaryParsed(resp) == resp.status = 200

\* a variant to tell apart: the data of the primary response is taken whatever
\* its code
PrimaryAcceptedAnyCode(data) == Truthy(Get(data, "data"))

\* get_web_key, line 176
PrimaryAccepted(data) == ~CodeNonZero(data) /\ Truthy(Get(data, "data"))

\* get_web_key, lines 173-177: the unsigned GET
GetWebKeyPrimary ==
    /\ script = "sms_login" /\ pc = "get_web_key"
    /\ \E resp \in KeyResponses :
          /\ net' = Append(net, Request("getWebKey", "GET_WEB_KEY", NoForm, resp))
          /\ IF PrimaryParsed(resp)
             THEN LET r == parse_json_or_raise(resp, "getWebKey")
                  IN IF ~r.ok
                     THEN Fail(WebKeyFailed(r.err)) /\ key_data' = key_data
                     ELSE IF PrimaryAccepted(r.val)
                     THEN key_data' = r.val.d["data"] /\ pc' = "send_sms" /\ err' = err
                     ELSE pc' = "key_fallback" /\ UNCHANGED <<key_data, err>>
             ELSE pc' = "key_fallback" /\ UNCHANGED <<key_data, err>>
    /\ UNCHANGED <<script, environ, APP_KEY, APP_SEC, argv, args, tel, cid,
                   sms_resp, captcha, sms_code, login_resp, result,
                   jar, file, writes, clock, call, ret>>

\* get_web_key, lines 178-185: the signed GET
GetWebKeyFallback ==
    /\ script = "sms_login" /\ pc = "key_fallback"
    /\ \E now \in Clock, resp \in KeyResponses :
          LET fallback == app_sign(D2("disable_rcmd", PyStr("0"), "local_id", PyStr(gen_buvid3)),
                                   now, APP_KEY, APP_SEC)
              r == parse_json_or_raise(resp, "getWebKey(fallback)")
          IN /\ clock <= now /\ clock' = now
             /\ net' = Append(net, Request("getWebKey(fallback)", "GET_WEB_KEY", fallback, resp))
             /\ IF ~r.ok
                THEN Fail(WebKeyFailed(r.err)) /\ key_data' = key_data
                ELSE IF CodeNonZero(r.val)
                THEN Fail(WebKeyFailed(Exc("ApiError", "getWebKey_failed"))) /\ key_data' = key_data
                ELSE IF "data" \notin DOMAIN r.val.d
                THEN Fail(WebKeyFailed(Exc("KeyError", "data"))) /\ key_data' = key_data
                ELSE key_data' = r.val.d["data"] /\ pc' = "send_sms" /\ err' = err
    /\ UNCHANGED <<script, environ, APP_KEY, APP_SEC, argv, args, tel, cid,
                   sms_resp, captcha, sms_code, login_resp, result,
                   jar, file, writes, call, ret>>

NoCaptcha == [recaptcha_token |-> PyNone, gee_gt |-> PyNone, gee_challenge |-> PyNone,
              gee_validate |-> PyNone, gee_seccode |-> PyNone]

\* send_sms_code, lines 188-208: the payload, with the clock read at ts_ms
SmsPayload(tel_, cid_, c, ts_ms) ==
    ("build" :> PyStr("2001100")) @@ ("buvid" :> PyStr(gen_buvid3))
    @@ ("c_locale" :> PyStr("zh_CN")) @@ ("channel" :> PyStr("master"))
    @@ ("cid" :> cid_) @@ ("disable_rcmd" :> PyStr("0"))
    @@ ("gee_challenge" :> c.gee_challenge) @@ ("gee_seccode" :> c.gee_seccode)
    @@ ("gee_validate" :> c.gee_validate) @@ ("local_id" :> PyStr(gen_buvid3))
    @@ ("login_session_id" :> PyStr(Md5(gen_buvid3 \o NatToStr(ts_ms))))
    @@ ("mobi_app" :> PyStr("android_hd")) @@ ("platform" :> PyStr("android"))
    @@ ("recaptcha_token" :> c.recaptcha_token) @@ ("s_locale" :> PyStr("zh_CN"))
    @@ ("statistics" :> PyStr(STATISTICS)) @@ ("tel" :> tel_)
    @@ ("ts" :> PyStr(NatToStr(ts_ms \div 1000)))

\* send_sms_code(tel, cid, c), lines 187-210, leaving the run at next
SendSmsCode(c, next) ==
    /\ \E t1 \in Clock, t2 \in Clock, resp \in SmsResponses :
          LET r == parse_json_or_raise(resp, "sendSmsCode")
          IN /\ clock <= t1 /\ t1 <= t2 /\ clock' = t2
             /\ net' = Append(net, Request("sendSmsCode", "APP_SMS_SEND",
                           app_sign(SmsPayload(tel, cid, c, t1), t2, APP_KEY, APP_SEC), resp))
             /\ IF ~r.ok THEN Fail(r.err) /\ sms_resp' = sms_resp
                ELSE sms_resp' = r.val /\ pc' = next /\ err' = err
    /\ UNCHANGED <<script, environ, APP_KEY, APP_SEC, argv, args, tel, cid,
                   key_data, captcha, sms_code, login_resp, result,
                   jar, file, writes, call, ret>>

\* line 321
SendSms == script = "sms_login" /\ pc = "send_sms" /\ SendSmsCode(NoCaptcha, "after_sms")

\* parse_recaptcha_url, lines 123-129, on the URLs of the model
parse_recaptcha_url(url) ==
    CASE url = CaptchaUrl ->
            [NoCaptcha EXCEPT !.recaptcha_token = PyStr("T"), !.gee_gt = PyStr("G"),
                              !.gee_challenge = PyStr("C")]
      [] url = CaptchaUrlShort -> [NoCaptcha EXCEPT !.gee_gt = PyStr("G")]
      [] OTHER -> NoCaptcha

\* a variant to tell apart: the send is retried on any non-zero code
RetryWantedAlways(resp) == CodeNonZero(resp)

\* lines 324-326: whether the SMS send is retried
RetryWanted(resp) ==
    /\ CodeNonZero(resp)
    /\ Truthy(Get(Or(Get(resp, "data"), PyDict(EmptyDict)), "recaptcha_url"))

\* lines 324-333: the human-verification prompt
AfterSms ==
    /\ script = "sms_login" /\ pc = "after_sms"
    /\ IF RetryWanted(sms_resp)
       THEN \E v \in GeeTyped, sc \in GeeTyped :
               LET url == Get(Or(Get(sms_resp, "data"), PyDict(EmptyDict)), "recaptcha_url")
                   c == parse_recaptcha_url(Str(url))
               IN /\ captcha' = [c EXCEPT !.gee_validate = PyStr(Strip(v)),
                                          !.gee_seccode = PyStr(Strip(sc))]
                  /\ pc' = "sms_retry"
       ELSE pc' = "check_sms" /\ captcha' = captcha
    /\ UNCHANGED <<script, environ, APP_KEY, APP_SEC, argv, args, err, tel, cid,
                   key_data, sms_resp, sms_code, login_resp, result,
                   net, jar, file, writes, clock, call, ret>>

\* line 334
SendSmsRetry == script = "sms_login" /\ pc = "sms_retry" /\ SendSmsCode(captcha, "check_sms")

\* lines 337-344
CheckSms ==
    /\ script = "sms_login" /\ pc = "check_sms"
    /\ IF CodeNonZero(sms_resp)
       THEN Fail(Exc("SystemExit", "sms_failed")) /\ sms_code' = sms_code
       ELSE IF ~Truthy(Get(Or(Get(sms_resp, "data"), PyDict(EmptyDict)), "captcha_key"))
       THEN Fail(Exc("SystemExit", "no_captcha_key")) /\ sms_code' = sms_code
       ELSE /\ \E typed \in CodeTyped :
                  sms_code' = IF Truthy(args["sms_code"]) THEN args["sms_code"]
                              ELSE PyStr(Strip(typed))
            /\ pc' = "login" /\ err' = err
    /\ UNCHANGED <<script, environ, APP_KEY, APP_SEC, argv, args, tel, cid,
                   key_data, sms_resp, captcha, login_resp, result,
                   net, jar, file, writes, clock, call, ret>>


\* login_by_sms, lines 222-245: the payload; dt stands for the quoted base64
\* of the RSA encryption of a fresh random string under the fetched key
LoginPayload(tel_, cid_, code_, captcha_key, public_key_pem) ==
    ("bili_local_id" :> PyStr(gen_device_id)) @@ ("build" :> PyStr("2001100"))
    @@ ("buvid" :> PyStr(gen_buvid3)) @@ ("c_locale" :> PyStr("zh_CN"))
    @@ ("captcha_key" :> captcha_key) @@ ("channel" :> PyStr("master"))
    @@ ("cid" :> cid_) @@ ("code" :> code_) @@ ("device" :> PyStr("phone"))
    @@ ("device_id" :> PyStr(gen_device_id)) @@ ("device_name" :> PyStr("vivo"))
    @@ ("device_platform" :> PyStr("Android14vivo")) @@ ("disable_rcmd" :> PyStr("0"))
    @@ ("dt" :> PyStr("RSA(" \o public_key_pem \o ")%3D"))
    @@ ("from_pv" :> PyStr("main.my-information.my-login.0.click"))
    @@ ("from_url" :> PyStr("bilibili%3A%2F%2Fuser_center%2Fmine"))
    @@ ("local_id" :> PyStr(gen_buvid3)) @@ ("mobi_app" :> PyStr("android_hd"))
    @@ ("platform" :> PyStr("android")) @@ ("s_locale" :> PyStr("zh_CN"))
    @@ ("statistics" :> PyStr(STATISTICS)) @@ ("tel" :> tel_)

\* line 345, with login_by_sms, lines 212-247
LoginBySms ==
    /\ script = "sms_login" /\ pc = "login"
    /\ IF key_data.t # "dict"
       THEN Fail(Exc("TypeError", "key_data[key]")) /\ UNCHANGED <<net, login_resp, clock>>
       ELSE IF "key" \notin DOMAIN key_data.d
       THEN Fail(Exc("KeyError", "key")) /\ UNCHANGED <<net, login_resp, clock>>
       ELSE \E now \in Clock, resp \in LoginResponses :
               LET r == parse_json_or_raise(resp, "loginBySms")
               IN /\ clock <= now /\ clock' = now
                  /\ net' = Append(net, Request("loginBySms", "APP_SMS_LOGIN",
                            app_sign(LoginPayload(tel, cid, sms_code,
                                        Get(Or(Get(sms_resp, "data"), PyDict(EmptyDict)),
                                            "captcha_key"),
                                        key_data.d["key"].s),
                                     now, APP_KEY, APP_SEC), resp))
                  /\ IF ~r.ok THEN Fail(r.err) /\ login_resp' = login_resp
                     ELSE login_resp' = r.val /\ pc' = "after_login" /\ err' = err
    /\ UNCHANGED <<script, environ, APP_KEY, APP_SEC, argv, args, tel, cid,
                   key_data, sms_resp, captcha, sms_code, result,
                   jar, file, writes, call, ret>>

\* a variant to tell apart: only the token is required
LoginDataCompleteTokenOnly(data) == Truthy(Get(data, "token_info"))

\* line 351: the login data carries token_info and cookie_info
LoginDataComplete(data) ==
    Truthy(Get(data, "token_info")) /\ Truthy(Get(data, "cookie_info"))

\* lines 347-356
FinishLogin ==
    /\ script = "sms_login" /\ pc = "after_login"
    /\ IF CodeNonZero(login_resp)
       THEN Fail(Exc("SystemExit", "login_failed")) /\ UNCHANGED <<file, writes, clock>>
       ELSE LET data == Or(Get(login_resp, "data"), PyDict(EmptyDict))
            IN IF ~LoginDataComplete(data)
               THEN Fail(Exc("SystemExit", "missing_token_or_cookie"))
                    /\ UNCHANGED <<file, writes, clock>>
               ELSE /\ \E now \in Clock :
                          /\ clock <= now /\ clock' = now
                          /\ file' = save_credentials(data, now)
                    /\ writes' = writes + 1
                    /\ pc' = "done" /\ err' = err
    /\ UNCHANGED <<script, environ, APP_KEY, APP_SEC, argv, args, tel, cid,
                   key_data, sms_resp, captcha, sms_code, login_resp, result,
                   net, jar, call, ret>>

-----------------------------------------------------------------------------
(* QR confirmation: BiliClient.qr_confirm_with_credentials and             *)
(* run_qr_confirm of bili_sms_login.py, and bili_qr_confirm.py.            *)

\* a variant to tell apart: cookies with an empty value are not injected either
InjectedSkipEmpty(cookies) ==
    [n \in { k \in DOMAIN cookies.d : Truthy(cookies.d[k]) } |-> Str(cookies.d[n])]

\* the loop that sets the cookies on the session (bili_sms_login.py:262-265,
\* bili_qr_confirm.py:106-109): every cookie whose value is not None
Injected(cookies) ==
    [n \in { k \in DOMAIN cookies.d : cookies.d[k] # PyNone } |-> Str(cookies.d[n])]

\* qr_confirm_with_credentials, bili_sms_login.py:249-277
QrConfirmWithCredentials ==
    /\ script = "sms_login" /\ pc = "run_qr_confirm"
    /\ LET loaded == load_saved_credentials(file)
           cred == loaded.val
           cookies == Or(Get(cred, "cookies"), PyDict(EmptyDict))
           csrf == Get(cookies, "bili_jct")
           auth == parse_auth_code(args["qr"].x)
       IN IF ~loaded.ok THEN Fail(loaded.err) /\ UNCHANGED <<jar, net, result>>
          ELSE IF cred.t # "dict"
          THEN Fail(Exc("AttributeError", "cred.get")) /\ UNCHANGED <<jar, net, result>>
          ELSE IF ~Truthy(cookies)
          THEN Fail(Exc("SystemExit", "no_cookies")) /\ UNCHANGED <<jar, net, result>>
          ELSE IF cookies.t # "dict"
          THEN Fail(Exc("AttributeError", "cookies.get")) /\ UNCHANGED <<jar, net, result>>
          ELSE IF ~Truthy(csrf)
          THEN Fail(Exc("SystemExit", "no_bili_jct")) /\ UNCHANGED <<jar, net, result>>
          ELSE IF ~auth.ok THEN Fail(auth.err) /\ UNCHANGED <<jar, net, result>>
          ELSE /\ jar' = Injected(cookies)
               /\ \E resp \in ConfirmResponses :
                     LET r == parse_json_or_raise(resp, "qrcodeConfirm")
                     IN /\ net' = Append(net, Request("qrcodeConfirm", "QRCODE_CONFIRM",
                               [auth_code |-> auth.val, csrf |-> csrf, scanning_type |-> "1"],
                               resp))
                        /\ IF ~r.ok THEN Fail(r.err) /\ result' = result
                           ELSE result' = r.val /\ pc' = "qr_check" /\ err' = err
    /\ UNCHANGED <<script, environ, APP_KEY, APP_SEC, argv, args, tel, cid,
                   key_data, sms_resp, captcha, sms_code, login_resp,
                   file, writes, clock, call, ret>>

\* run_qr_confirm, bili_sms_login.py:363-365, and main, bili_qr_confirm.py:160-163
CheckConfirm ==
    /\ pc = "qr_check"
    /\ IF CodeNonZero(result)
       THEN Fail(Exc("SystemExit", "confirm_failed"))
       ELSE pc' = "done" /\ err' = err
    /\ UNCHANGED <<script, environ, APP_KEY, APP_SEC, argv, args, tel, cid,
                   key_data, sms_resp, captcha, sms_code, login_resp, result,
                   net, jar, file, writes, clock, call, ret>>

\* main of bili_qr_confirm.py, lines 143-155: --qr is required
QrParseArgs ==
    /\ script = "qr_confirm" /\ pc = "main"
    /\ IF argv.qr = NoArg
       THEN Fail(Exc("SystemExit", "argparse_usage")) /\ args' = args
       ELSE /\ args' = ("qr" :> Text(argv.qr)) @@ ("cred" :> PyStr(DefaultCredFile))
                       @@ ("timeout" :> PyInt(20))
            /\ pc' = "confirm_qr_login" /\ err' = err
    /\ UNCHANGED <<script, environ, APP_KEY, APP_SEC, argv, tel, cid,
                   key_data, sms_resp, captcha, sms_code, login_resp, result,
                   net, jar, file, writes, clock, call, ret>>

\* build_session_from_credentials, bili_qr_confirm.py:83-111: the session's
\* cookies and the csrf value
build_session_from_credentials(cred) ==
    LET cookies == Or(Get(cred, "cookies"), PyDict(EmptyDict))
        csrf == Get(cookies, "bili_jct")
    IN IF cookies.t # "dict" \/ ~Truthy(cookies)
       THEN Raise(Exc("ConfirmError", "no_cookies"))
       ELSE IF ~Truthy(csrf) THEN Raise(Exc("ConfirmError", "no_bili_jct"))
       ELSE Ok([jar |-> Injected(cookies), csrf |-> PyStr(Str(csrf))])

\* confirm_qr_login, line 119
IsWebQrLink(raw) == StartsWithScheme(raw) /\ ContainsQrcodeKeyEq(raw)

\* confirm_qr_login, bili_qr_confirm.py:114-139
ConfirmQrLogin ==
    /\ script = "qr_confirm" /\ pc = "confirm_qr_login"
    /\ LET loaded == load_credentials(file)
           built == build_session_from_credentials(loaded.val)
           raw == TStrip(args["qr"].x)
           key == extract_qrcode_key(raw)
           auth == extract_auth_code(raw)
       IN IF ~loaded.ok THEN Fail(loaded.err) /\ UNCHANGED <<jar, net, result>>
          ELSE IF ~built.ok THEN Fail(built.err) /\ UNCHANGED <<jar, net, result>>
          ELSE IF IsWebQrLink(raw) /\ ~key.ok
          THEN Fail(key.err) /\ jar' = built.val.jar /\ UNCHANGED <<net, result>>
          ELSE IF ~IsWebQrLink(raw) /\ ~auth.ok
          THEN Fail(auth.err) /\ jar' = built.val.jar /\ UNCHANGED <<net, result>>
          ELSE /\ jar' = built.val.jar
               /\ \E resp \in ConfirmResponses :
                     LET r == parse_json_or_raise(resp, "qrcodeConfirm")
                     IN /\ net' = Append(net,
                             IF IsWebQrLink(raw)
                             THEN Request("qrcodeConfirm", "WEB_QRCODE_CONFIRM_API",
                                      [qrcode_key |-> key.val, csrf |-> built.val.csrf,
                                       source |-> "main-fe-header"], resp)
                             ELSE Request("qrcodeConfirm", "QRCODE_CONFIRM_API",
                                      [auth_code |-> auth.val, csrf |-> built.val.csrf,
                                       scanning_type |-> "1"], resp))
                        /\ IF ~r.ok
                           THEN Fail([r.err EXCEPT !.exc = "ConfirmError"]) /\ result' = result
                           ELSE result' = r.val /\ pc' = "qr_check" /\ err' = err
    /\ UNCHANGED <<script, environ, APP_KEY, APP_SEC, argv, args, tel, cid,
                   key_data, sms_resp, captcha, sms_code, login_resp,
                   file, writes, clock, call, ret>>

-----------------------------------------------------------------------------
(* The programs' runs.                                                     *)

\* a credential record as an earlier login left it
OldLoginData ==
    PyDict(D2("token_info",
              PyDict(("access_token" :> PyStr("AT0")) @@ ("refresh_token" :> PyStr("RT0"))
                     @@ ("expires_in" :> PyInt(60)) @@ ("mid" :> PyInt(7))
                     @@ ("scope" :> PyStr("old"))),
              "cookie_info",
              PyDict(D1("cookies",
                  PyList(<<Cookie(PyStr("bili_jct"), PyStr("j0")),
                           Cookie(PyStr("DedeUserID"), PyStr("7")),
                           Cookie(PyStr("sid"), PyStr("")),
                           Cookie(PyStr("spare"), PyNone)>>)))))

OldFile == save_credentials(OldLoginData, 999000)

\* the file with the cookies entry of its record replaced
WithCookies(f, c) == FileText(JObject(("cookies" :> c) @@ f.doc.m))

\* credential files a confirmation may find
CredFiles ==
    { NoFile, BadText, OldFile,
      FileText(JArray(<<>>)),
      FileText(JObject([k \in DOMAIN OldFile.doc.m \ {"cookies"} |-> OldFile.doc.m[k]])),
      WithCookies(OldFile, JNull),
      WithCookies(OldFile, JObject(EmptyDict)),
      WithCookies(OldFile, JObject(D1("SESSDATA", JString("s1")))),
      WithCookies(OldFile, JObject(D2("SESSDATA", JString("s1"), "bili_jct", JString("")))),
      WithCookies(OldFile, JObject(D2("SESSDATA", JString("s1"), "bili_jct", JNull))) }

NoCall == <<>>

\* the runs checked: every environment with every subcommand, every other
\* input varied under the default environment
Runs ==
    { r \in [script : {"sms_login"}, environ : Environs, argv : SmsArgvs, file : CredFiles] :
        /\ r.argv.cmd # "qr-confirm" => r.file \in {NoFile, OldFile}
        /\ r.file = OldFile /\ r.argv.cmd = "sms-login" => r.argv.sms_code # PyNone
        /\ r.environ # <<>> =>
              /\ r.file = (IF r.argv.cmd = "qr-confirm" THEN OldFile ELSE NoFile)
              /\ r.argv.tel \in {PyNone, PyStr("139")}
              /\ r.argv.qr \in {NoArg, <<"A">>} }
    \cup [script : {"qr_confirm"}, environ : {<<>>}, argv : QrArgvs, file : CredFiles]

Init ==
    /\ \E r \in Runs :
          /\ script = r.script /\ environ = r.environ
          /\ argv = r.argv /\ file = r.file
    /\ APP_KEY = Getenv(environ, "BILI_APP_KEY", DEFAULT_APP_KEY)
    /\ APP_SEC = Getenv(environ, "BILI_APP_SEC", DEFAULT_APP_SEC)
    /\ args = <<>>
    /\ pc = "main"
    /\ err = NoErr
    /\ tel = PyNone /\ cid = PyNone /\ key_data = PyNone /\ sms_resp = PyNone
    /\ captcha = NoCaptcha /\ sms_code = PyNone /\ login_resp = PyNone
    /\ result = PyNone
    /\ net = <<>>
    /\ jar = <<>>
    /\ writes = 0
    /\ clock = 1000999
    /\ call = NoCall /\ ret = NoCall

Next ==
    \/ EnsureKeyPairValid
    \/ ParseArgs
    \/ Dispatch
    \/ ReadTelCid
    \/ GetWebKeyPrimary
    \/ GetWebKeyFallback
    \/ SendSms
    \/ AfterSms
    \/ SendSmsRetry
    \/ CheckSms
    \/ LoginBySms
    \/ FinishLogin
    \/ QrConfirmWithCredentials
    \/ QrParseArgs
    \/ ConfirmQrLogin
    \/ CheckConfirm

Spec == Init /\ [][Next]_vars

-----------------------------------------------------------------------------
(* Properties of the programs' runs.                                       *)

SmsCalls == SelectSeq(net, LAMBDA e : e.api = "sendSmsCode")
LoginCalls == SelectSeq(net, LAMBDA e : e.api = "loginBySms")
KeyCalls == SelectSeq(net, LAMBDA e : e.api \in {"getWebKey", "getWebKey(fallback)"})
ConfirmCalls == SelectSeq(net, LAMBDA e : e.api = "qrcodeConfirm")

\* data of a response body, as (body.get("data") or {})
DataOf(body) == Or(Get(body, "data"), PyDict(EmptyDict))

\* C1: the credential file is written only in a run whose login response has
\* code 0 and carries a non-empty token_info and a non-empty cookie_info; a
\* login response that lacks either ends the run with a fatal error and the
\* file was never written.
C1_SaveOnlyCompleteLogin ==
    script = "sms_login" =>
      /\ writes <= 1
      /\ (writes > 0 \/ file \notin CredFiles) =>
            /\ login_resp # PyNone
            /\ Get(login_resp, "code") = PyInt(0)
            /\ Truthy(Get(DataOf(login_resp), "token_info"))
            /\ Truthy(Get(DataOf(login_resp), "cookie_info"))
      /\ ( /\ login_resp # PyNone /\ pc # "after_login"
           /\ \/ ~Truthy(Get(DataOf(login_resp), "token_info"))
              \/ ~Truthy(Get(DataOf(login_resp), "cookie_info")) ) =>
            /\ pc = "exit" /\ err.exc = "SystemExit"
            /\ writes = 0 /\ file \in {NoFile, OldFile}

\* C1 witness: a login response with code 0 and a token but no cookie_info
\* was rejected
C1_Witness ==
    /\ pc = "exit" /\ err.msg = "missing_token_or_cookie"
    /\ Get(login_resp, "code") = PyInt(0)
    /\ Truthy(Get(DataOf(login_resp), "token_info"))
    /\ "cookie_info" \notin DOMAIN DataOf(login_resp).d
    /\ writes = 0

\* C2: the SMS send is called at most twice; a second call is made only
\* after a first response with a non-zero code and a human-verification URL;
\* and when the response in hand after the sends is non-zero (or the send
\* failed) the run ends in an error with no login request sent.
C2_SmsSentAtMostTwice ==
    script = "sms_login" =>
      /\ Len(SmsCalls) <= 2
      /\ Len(SmsCalls) = 2 =>
            LET first == SmsCalls[1].resp.json
            IN /\ first # NotJson
               /\ Get(first, "code") # PyInt(0)
               /\ Truthy(Get(DataOf(first), "recaptcha_url"))
      /\ LoginCalls # <<>> =>
            /\ SmsCalls # <<>>
            /\ SmsCalls[Len(SmsCalls)].resp.json = sms_resp
            /\ Get(sms_resp, "code") = PyInt(0)
      /\ ( /\ pc \notin {"after_sms", "sms_retry", "check_sms"}
           /\ SmsCalls # <<>>
           /\ \/ SmsCalls[Len(SmsCalls)].resp.json = NotJson
              \/ Get(sms_resp, "code") # PyInt(0) ) =>
            /\ pc = "exit" /\ err.exc \in {"SystemExit", "ApiError"}
            /\ LoginCalls = <<>>

\* C2 witness: the send was retried once and the retry's response was still
\* non-zero
C2_Witness ==
    /\ Len(SmsCalls) = 2
    /\ pc = "exit" /\ err.msg = "sms_failed"
    /\ SmsCalls[2].resp.json = sms_resp

\* C3: without a subcommand the login flow runs as it does for sms-login: the
\* run reaches the key fetch unless it ends for a reason an sms-login run can
\* end for before that step (the key pair, the country code typed).
C3_NoSubcommandRunsLogin ==
    (script = "sms_login" /\ argv.cmd = "" /\ pc = "exit" /\ net = <<>>) =>
        err.msg \in {"key_pair", "int(cid)"}

\* the pair app_sign must have used in this run
PairInUse ==
    IF {"BILI_APP_KEY", "BILI_APP_SEC"} \subseteq DOMAIN environ
    THEN <<environ["BILI_APP_KEY"], environ["BILI_APP_SEC"]>>
    ELSE <<DEFAULT_APP_KEY, DEFAULT_APP_SEC>>

\* the signature of a signed form under secret sec
SignOf(form, sec) ==
    LET rest == [k \in DOMAIN form \ {"sign"} |-> form[k]]
    IN Md5(UrlEncode(rest, SortedKeys(rest)) \o sec)

\* C4: with exactly one of BILI_APP_KEY / BILI_APP_SEC set, main ends in a
\* fatal error before the arguments are parsed, a request is sent or the file
\* is written; otherwise every signed request carries the key and the
\* signature of one pair, both overrides or both defaults.
C4_KeyPairTogether ==
    script = "sms_login" =>
      /\ ( /\ ("BILI_APP_KEY" \in DOMAIN environ) # ("BILI_APP_SEC" \in DOMAIN environ)
           /\ pc # "main" ) =>
            /\ pc = "exit" /\ err = Exc("SystemExit", "key_pair")
            /\ args = <<>> /\ net = <<>> /\ writes = 0 /\ jar = <<>>
      /\ \A i \in 1..Len(net) :
            "sign" \in DOMAIN net[i].data =>
                /\ net[i].data["appkey"] = PairInUse[1]
                /\ net[i].data["sign"] = SignOf(net[i].data, PairInUse[2])

\* C4 witness: a run with only the secret set was refused
C4_Witness ==
    /\ DOMAIN environ = {"BILI_APP_SEC"}
    /\ pc = "exit" /\ err.msg = "key_pair"


\* the run called the confirmation and the call is over
ConfirmOver ==
    /\ args # <<>> /\ "qr" \in DOMAIN args
    /\ pc \in {"qr_check", "exit", "done"}
    /\ err.msg # "argparse_usage"

\* the record in the credential file, PyNone when the file holds none
StoredRecord ==
    IF file.t = "text" /\ file.doc.j = "object" THEN Loads(file.doc) ELSE PyNone

\* the cookies mapping of the stored record, an empty mapping when it has none
StoredCookies ==
    IF StoredRecord # PyNone /\ Get(StoredRecord, "cookies").t = "dict"
    THEN Get(StoredRecord, "cookies").d ELSE EmptyDict

\* the query of the URL raw has a qrcode_key parameter
HasQrcodeKeyParam(raw) ==
    /\ StartsWithScheme(raw)
    /\ \E i \in 1..Len(ParseQsl(UrlQuery(raw))) :
          ParseQsl(UrlQuery(raw))[i].name = <<"qrcode_key">>

\* C6: with usable credentials, confirm_qr_login sends its one request to the
\* web qrcode-key endpoint exactly when the input is a URL whose query has a
\* qrcode_key parameter, and to the TV auth-code endpoint in every other
\* case in which the input yields an auth code.
C6_EndpointByQrcodeKey ==
    ( /\ script = "qr_confirm" /\ ConfirmOver
      /\ load_credentials(file).ok
      /\ build_session_from_credentials(load_credentials(file).val).ok ) =>
        LET raw == TStrip(args["qr"].x)
        IN IF HasQrcodeKeyParam(raw)
           THEN Len(net) = 1 /\ net[1].url = "WEB_QRCODE_CONFIRM_API"
           ELSE IF extract_auth_code(raw).ok
           THEN Len(net) = 1 /\ net[1].url = "QRCODE_CONFIRM_API"
           ELSE net = <<>>

\* C7: a confirmation whose credential record has no cookies mapping or no
\* non-empty bili_jct ends in a missing-field error with no request sent; a
\* confirmation request carries the stored bili_jct as csrf, and every stored
\* cookie whose value is not null is on the session when it is sent.
C7_CsrfRequired ==
    /\ ( /\ ConfirmOver /\ StoredRecord # PyNone
         /\ \/ StoredCookies = EmptyDict
            \/ "bili_jct" \notin DOMAIN StoredCookies
            \/ StoredCookies["bili_jct"] \in {PyNone, PyStr("")} ) =>
          /\ pc = "exit"
          /\ err.exc = (IF script = "sms_login" THEN "SystemExit" ELSE "ConfirmError")
          /\ err.msg \in {"no_cookies", "no_bili_jct"}
          /\ net = <<>>
    /\ \A i \in 1..Len(ConfirmCalls) :
          /\ "bili_jct" \in DOMAIN StoredCookies
          /\ ConfirmCalls[i].data.csrf = StoredCookies["bili_jct"]
          /\ ConfirmCalls[i].data.csrf \notin {PyNone, PyStr("")}
          /\ \A n \in DOMAIN StoredCookies :
                StoredCookies[n] # PyNone =>
                    n \in DOMAIN jar /\ jar[n] = Str(StoredCookies[n])
    /\ Len(ConfirmCalls) <= 1

\* C7 witness: a request went out with the stored csrf, the cookie with an
\* empty value on the session and the cookie without a value left out
C7_Witness ==
    /\ Len(ConfirmCalls) = 1
    /\ ConfirmCalls[1].data.csrf = PyStr("j0")
    /\ "sid" \in DOMAIN jar /\ "spare" \notin DOMAIN jar

\* an exchange's response is JSON
IsJson(e) == e.resp.json # NotJson

\* what the run ends with when get_web_key raises the non-JSON error for
\* the exchange e
NonJsonEnd(e) ==
    /\ pc = "exit" /\ err.exc = "SystemExit"
    /\ err.msg = "web_key:ApiError:non_json:" \o e.api
    /\ err.status = e.resp.status /\ err.body = Preview(e.resp.text)

\* get_web_key has returned
KeyReturned ==
    \/ pc \in {"send_sms", "after_sms", "sms_retry", "check_sms", "login",
               "after_login", "done"}
    \/ pc = "exit" /\ SmsCalls # <<>>

\* C10 as stated: a primary response that is non-200 or not JSON fails the
\* operation with the non-JSON error carrying status and preview; the
\* fallback is made when the primary code is non-zero; key data is returned
\* only from a response whose code is 0.
C10_AsStated ==
    (script = "sms_login" /\ KeyCalls # <<>>) =>
      LET p == KeyCalls[1]
      IN /\ (p.resp.status # 200 \/ ~IsJson(p)) => (NonJsonEnd(p) /\ Len(KeyCalls) = 1)
         /\ (IsJson(p) /\ p.resp.status = 200 /\ CodeNonZero(p.resp.json)) =>
                (pc = "key_fallback" \/ Len(KeyCalls) = 2)
         /\ KeyReturned =>
                LET last == KeyCalls[Len(KeyCalls)]
                IN IsJson(last) /\ ~CodeNonZero(last.resp.json)

\* C10 amended: a primary response of status 200 that is not JSON fails the
\* operation with the non-JSON error carrying status and preview; the signed
\* fallback GET is made exactly when the primary response is non-200, or is
\* JSON with a non-zero code or without data; a fallback response that is not
\* JSON fails with that error whatever its status; key data is returned only
\* from a response whose code is 0, and is that response's data.
C10_KeyFetch ==
    (script = "sms_login" /\ KeyCalls # <<>>) =>
      LET p == KeyCalls[1]
          fallback_due ==
              \/ p.resp.status # 200
              \/ /\ IsJson(p)
                 /\ \/ Get(p.resp.json, "code") # PyInt(0)
                    \/ ~Truthy(Get(p.resp.json, "data"))
      IN /\ Len(KeyCalls) <= 2
         /\ p.api = "getWebKey" /\ p.data = NoForm
         /\ (p.resp.status = 200 /\ ~IsJson(p)) => (NonJsonEnd(p) /\ Len(KeyCalls) = 1)
         /\ fallback_due <=> (pc = "key_fallback" \/ Len(KeyCalls) = 2)
         /\ Len(KeyCalls) = 2 =>
               /\ KeyCalls[2].api = "getWebKey(fallback)"
               /\ "sign" \in DOMAIN KeyCalls[2].data
               /\ ~IsJson(KeyCalls[2]) => NonJsonEnd(KeyCalls[2])
         /\ KeyReturned =>
               LET last == KeyCalls[Len(KeyCalls)]
               IN /\ IsJson(last) /\ Get(last.resp.json, "code") = PyInt(0)
                  /\ key_data = Get(last.resp.json, "data")

\* C10 witness: the primary response was 502 and not JSON, and the fallback
\* returned the key
C10_Witness ==
    /\ Len(KeyCalls) = 2
    /\ KeyCalls[1].resp.status = 502 /\ ~IsJson(KeyCalls[1])
    /\ pc = "send_sms" /\ key_data = KeyOk.d["data"]

-----------------------------------------------------------------------------
(* The signer applied to arbitrary parameter mappings.                     *)

MaxParams == 3

SignKeys == {"appkey", "cid", "sign", "tel", "ts"}
SignVals == {PyNone, PyStr(""), PyStr("a b"), PyInt(0)}

SignInputs ==
    UNION { [ks -> SignVals] : ks \in { x \in SUBSET SignKeys : Cardinality(x) <= MaxParams } }

\* the variables of the programs' runs, unused when a function is applied
Idle ==
    /\ script = "none" /\ argv = <<>> /\ args = <<>> /\ err = NoErr
    /\ tel = PyNone /\ cid = PyNone /\ key_data = PyNone /\ sms_resp = PyNone
    /\ captcha = NoCaptcha /\ sms_code = PyNone /\ login_resp = PyNone
    /\ result = PyNone /\ net = <<>> /\ jar = <<>>

idlevars == <<script, argv, args, err, tel, cid, key_data, sms_resp, captcha,
              sms_code, login_resp, result, net, jar>>

InitSign ==
    /\ Idle
    /\ environ \in {<<>>, D2("BILI_APP_KEY", "EK", "BILI_APP_SEC", "ES")}
    /\ APP_KEY = Getenv(environ, "BILI_APP_KEY", DEFAULT_APP_KEY)
    /\ APP_SEC = Getenv(environ, "BILI_APP_SEC", DEFAULT_APP_SEC)
    /\ file = NoFile /\ writes = 0
    /\ clock \in Clock
    /\ call \in SignInputs
    /\ ret = NoCall
    /\ pc = "call"

\* app_sign(call) at the clock's reading
AppSign ==
    /\ pc = "call"
    /\ ret' = app_sign(call, clock, APP_KEY, APP_SEC)
    /\ pc' = "ret"
    /\ UNCHANGED <<idlevars, environ, APP_KEY, APP_SEC, file, writes, clock, call>>

SpecSign == InitSign /\ [][AppSign]_vars

\* an input entry app_sign drops
Dropped(v) == v = PyNone \/ v = PyStr("")

\* C8 as stated: the result holds appkey, ts and sign, no key whose input
\* value was absent or empty, and its sign is the digest of every other pair
\* of the result in sorted key order, followed by the secret.
C8_AsStated ==
    pc = "ret" =>
      /\ {"appkey", "ts", "sign"} \subseteq DOMAIN ret
      /\ \A k \in DOMAIN call : Dropped(call[k]) => k \notin DOMAIN ret
      /\ ret["sign"] = SignOf(ret, APP_SEC)

\* C8 amended: the result holds appkey (the application key), ts (the clock's
\* second) and sign, whatever the input held under these names; every other
\* input key is in the result, with its value as a string, exactly when its
\* value was neither absent nor empty; and sign is the digest, followed by
\* the secret, of the sorted serialisation of every other pair of the result
\* together with the input's own sign entry when the input held a non-empty
\* one -- so it is reproducible from the result alone exactly when the input
\* held no such entry.
C8_Signer ==
    pc = "ret" =>
      LET reserved == {"appkey", "ts", "sign"}
          own_sign == "sign" \in DOMAIN call /\ ~Dropped(call["sign"])
          signed == IF own_sign THEN [ret EXCEPT !["sign"] = Str(call["sign"])]
                    ELSE [k \in DOMAIN ret \ {"sign"} |-> ret[k]]
      IN /\ reserved \subseteq DOMAIN ret
         /\ DOMAIN ret \subseteq DOMAIN call \cup reserved
         /\ ret["appkey"] = APP_KEY
         /\ ret["ts"] = NatToStr(clock \div 1000)
         /\ \A k \in DOMAIN call \ reserved :
               IF Dropped(call[k]) THEN k \notin DOMAIN ret
               ELSE ret[k] = Str(call[k])
         /\ ret["sign"] = Md5(UrlEncode(signed, SortedKeys(signed)) \o APP_SEC)
         /\ (ret["sign"] = SignOf(ret, APP_SEC)) <=> ~own_sign

\* C8 witness: an input with an empty ts and a value to quote was signed, and
\* the signature covers the timestamp set by the signer
C8_Witness ==
    /\ pc = "ret"
    /\ call = D2("ts", PyStr(""), "tel", PyStr("a b"))
    /\ ret["ts"] = "1000"
    /\ ret["sign"] = Md5("appkey=" \o APP_KEY \o "&tel=a+b&ts=1000" \o APP_SEC)

-----------------------------------------------------------------------------
(* The two auth-code extractors applied to texts built from pieces.        *)

MaxFields == 2

\* the text before the query: nothing, a bare code, a link, a link after text
Heads == {<<>>, <<"A">>, <<"https://", "h">>, <<"http://", "h">>, <<"h", "https://", "h">>}

FieldNames == {"auth_code", "authCode", "code", "x"}
FieldValues == {<<>>, <<"A">>, <<"B">>, <<"%20">>, <<"+", "B", "+">>}

\* a field name=value, or a name alone
QueryFields ==
    { <<n, "=">> \o v : n \in FieldNames, v \in FieldValues } \cup {<<"code">>}

RECURSIVE JoinFields(_)
JoinFields(fs) ==
    IF Len(fs) = 1 THEN fs[1] ELSE fs[1] \o <<"&">> \o JoinFields(Tail(fs))

Queries ==
    {<<>>} \cup
    { <<"?">> \o JoinFields(fs) :
        fs \in UNION { [1..n -> QueryFields] : n \in 1..MaxFields } }

Pads == {<<>>, <<" ">>}

AuthTexts ==
    { pad \o head \o query \o pad : pad \in Pads, head \in Heads, query \in Queries }
    \cup QrArgs

InitAuth ==
    /\ Idle
    /\ environ = <<>>
    /\ APP_KEY = DEFAULT_APP_KEY /\ APP_SEC = DEFAULT_APP_SEC
    /\ file = NoFile /\ writes = 0 /\ clock = 0
    /\ call \in AuthTexts
    /\ ret = NoCall
    /\ pc = "call"

authvars == <<idlevars, environ, APP_KEY, APP_SEC, file, writes, clock, call>>

\* parse_auth_code(call), the login script's extractor
ParseAuthCode ==
    /\ pc = "call"
    /\ ret' = parse_auth_code(call)
    /\ pc' = "parsed"
    /\ UNCHANGED authvars

\* extract_auth_code(call), the confirmation script's extractor
ExtractAuthCode ==
    /\ pc = "call"
    /\ ret' = extract_auth_code(call)
    /\ pc' = "extracted"
    /\ UNCHANGED authvars

SpecAuth == InitAuth /\ [][ParseAuthCode \/ ExtractAuthCode]_vars

\* the value the claim names: the first non-empty value among the three
\* parameters in priority order, <<>> when there is none
FirstNonEmpty(text) ==
    LET nonempty(name) == { i \in 1..Len(ParseQsl(UrlQuery(text))) :
                              ParseQsl(UrlQuery(text))[i].name = <<name>> }
        first(name) == ParseQsl(UrlQuery(text))[
                           CHOOSE i \in nonempty(name) : \A j \in nonempty(name) : i <= j].value
    IN IF nonempty("auth_code") # {} THEN first("auth_code")
       ELSE IF nonempty("authCode") # {} THEN first("authCode")
       ELSE IF nonempty("code") # {} THEN first("code")
       ELSE <<>>

\* C5 as stated: either extractor returns a text holding no link unchanged,
\* and for a link yields the first non-empty value among auth_code, authCode
\* and code in that order, or an error when there is none.
C5_AsStated ==
    pc \in {"parsed", "extracted"} =>
      IF ~ContainsScheme(call) THEN ret = Ok(call)
      ELSE IF StartsWithScheme(call)
           THEN IF FirstNonEmpty(call) # <<>>
                THEN ret = Ok(FirstNonEmpty(call))
                ELSE ~ret.ok
           ELSE TRUE

\* the trimmed first value of a parameter, <<>> when the parameter is missing
\* or its first value is blank
Trimmed(text, name) ==
    LET hits == SelectSeq(ParseQsl(UrlQuery(text)), LAMBDA nv : nv.name = <<name>>)
    IN IF hits = <<>> THEN <<>> ELSE TStrip(hits[1].value)

\* C5 amended: both extractors first trim the input.  parse_auth_code
\* returns the trimmed input when it holds no "http://" or "https://"
\* anywhere; extract_auth_code rejects an empty trimmed input and returns
\* the trimmed input when it does not start with one of the two.  Otherwise
\* both yield the trimmed first value of the first of auth_code, authCode,
\* code (in that order) whose first value is not blank, and an explicit
\* missing-field error, never a value, when there is none.
C5_AuthCode ==
    pc \in {"parsed", "extracted"} =>
      LET raw == TStrip(call)
          bare == IF pc = "parsed" THEN ~ContainsScheme(raw) ELSE ~StartsWithScheme(raw)
          expected == IF Trimmed(raw, "auth_code") # <<>> THEN Trimmed(raw, "auth_code")
                      ELSE IF Trimmed(raw, "authCode") # <<>> THEN Trimmed(raw, "authCode")
                      ELSE Trimmed(raw, "code")
      IN IF pc = "extracted" /\ raw = <<>> THEN ~ret.ok /\ ret.err.msg = "empty"
         ELSE IF bare THEN ret = Ok(raw)
         ELSE IF expected # <<>> THEN ret = Ok(expected)
         ELSE ~ret.ok /\ ret.err.msg = "no_auth_code"

\* C5 witness: a padded link whose code comes before its auth_code and whose
\* authCode is blank yields the auth_code
C5_Witness ==
    /\ pc = "extracted"
    /\ call = <<" ", "https://", "h", "?", "code", "=", "A", "&", "auth_code", "=", "B", " ">>
    /\ ret = Ok(<<"B">>)

-----------------------------------------------------------------------------
(* Saving login results and loading the file back.                         *)

MaxCookies == 2

\* cookie entries of a login response: with or without a name, the name null
\* or empty, the value null
CookieEntries ==
    { Cookie(n, v) : n \in {PyNone, PyStr(""), PyStr("a"), PyStr("bili_jct")},
                     v \in {PyNone, PyStr("v1"), PyStr("v2")} }
    \cup { PyDict(D1("value", v)) : v \in {PyStr("v1"), PyStr("v2")} }

CookieLists ==
    { PyList(l) : l \in UNION { [1..n -> CookieEntries] : n \in 0..MaxCookies } }

TokenInfos ==
    { TokenInfo,
      PyDict(D2("access_token", PyStr("AT2"), "token_type", PyStr("bearer"))) }

\* login results that pass the check of run_sms_login
SavedLogins ==
    { PyDict(D2("token_info", t, "cookie_info", PyDict(D1("cookies", c)))) :
        t \in TokenInfos, c \in CookieLists }
    \cup { PyDict(D2("token_info", t, "cookie_info", PyDict(D1("domains", PyList(<<>>))))) :
             t \in TokenInfos }

InitCred ==
    /\ Idle
    /\ environ = <<>>
    /\ APP_KEY = DEFAULT_APP_KEY /\ APP_SEC = DEFAULT_APP_SEC
    /\ file = NoFile /\ writes = 0 /\ clock = 1000999
    /\ call \in { <<d>> : d \in SavedLogins } \cup { <<OldLoginData, d>> : d \in SavedLogins }
    /\ ret = NoCall
    /\ pc = "save"

credvars == <<idlevars, environ, APP_KEY, APP_SEC>>

\* save_credentials(call[writes + 1], file): the next login of the sequence
\* is saved, at the clock's reading
SaveCredentials ==
    /\ pc = "save"
    /\ writes < Len(call)
    /\ clock' \in {clock, clock + 1}
    /\ file' = save_credentials(call[writes + 1], clock')
    /\ writes' = writes + 1
    /\ UNCHANGED <<credvars, call, ret, pc>>

\* load_credentials(file), the confirmation script's loader
LoadCredentials ==
    /\ pc = "save"
    /\ writes = Len(call)
    /\ ret' = load_credentials(file)
    /\ pc' = "loaded"
    /\ UNCHANGED <<credvars, call, file, writes, clock>>

\* load_saved_credentials(file), the login script's loader
LoadSavedCredentials ==
    /\ pc = "save"
    /\ writes = Len(call)
    /\ ret' = load_saved_credentials(file)
    /\ pc' = "loaded_saved"
    /\ UNCHANGED <<credvars, call, file, writes, clock>>

SpecCred == InitCred /\ [][SaveCredentials \/ LoadCredentials \/ LoadSavedCredentials]_vars

\* the login saved last, its token and its cookie list
LastLogin == call[Len(call)]
LastToken == Get(LastLogin, "token_info")
LastCookieList ==
    LET c == Get(Get(LastLogin, "cookie_info"), "cookies")
    IN IF c = PyNone THEN <<>> ELSE c.l

\* the fields of the loaded record that C9 as stated and amended share
TokenFieldsRoundTrip ==
    /\ ret.ok
    /\ ret.val.t = "dict"
    /\ \A k \in {"access_token", "refresh_token", "expires_in", "mid"} :
          Get(ret.val, k) = Get(LastToken, k)
    /\ Get(ret.val, "raw_token_info") = LastToken
    /\ Get(ret.val, "raw_cookie_info") = PyList(LastCookieList)
    /\ DOMAIN ret.val.d = {"saved_at", "access_token", "refresh_token", "expires_in",
                            "mid", "cookies", "raw_token_info", "raw_cookie_info"}
    /\ Get(ret.val, "saved_at") = PyInt(clock \div 1000)

\* C9 as stated: the loaded record has the token fields of the login, a
\* cookies mapping holding exactly the name-to-value pairs of the login's
\* cookie list, the raw inputs, and nothing of an earlier record.
C9_AsStated ==
    pc \in {"loaded", "loaded_saved"} =>
      /\ TokenFieldsRoundTrip
      /\ Get(ret.val, "cookies").t = "dict"
      /\ { <<Get(LastCookieList[i], "name"), Get(LastCookieList[i], "value")>> :
             i \in 1..Len(LastCookieList) }
         = { <<PyStr(n), Get(ret.val, "cookies").d[n]>> :
               n \in DOMAIN Get(ret.val, "cookies").d }

\* C9 amended: the loaded record has the token fields of the login (null
\* for a field the token lacks), the raw token and the raw cookie list, the
\* second of the save, and no other field, whatever an earlier login left;
\* its cookies mapping holds one pair for each non-empty name of the cookie
\* list, with the value of the last entry of that name: entries without a
\* name are left out and an earlier entry of a repeated name is replaced.
C9_RoundTrip ==
    pc \in {"loaded", "loaded_saved"} =>
      /\ TokenFieldsRoundTrip
      /\ LET cookies == Get(ret.val, "cookies")
             named(i) == Get(LastCookieList[i], "name") \notin {PyNone, PyStr("")}
         IN /\ cookies.t = "dict"
            /\ \A i \in 1..Len(LastCookieList) :
                  named(i) => Get(LastCookieList[i], "name").s \in DOMAIN cookies.d
            /\ \A n \in DOMAIN cookies.d :
                  \E i \in 1..Len(LastCookieList) :
                     /\ Get(LastCookieList[i], "name") = PyStr(n)
                     /\ n # ""
                     /\ cookies.d[n] = Get(LastCookieList[i], "value")
                     /\ \A j \in (i + 1)..Len(LastCookieList) :
                           Get(LastCookieList[j], "name") # PyStr(n)

\* C9 witness: a re-login whose cookie list repeats a name was saved over an
\* earlier record and loaded: the later value is the one kept
C9_Witness ==
    /\ pc = "loaded"
    /\ writes = 2
    /\ LastCookieList = <<Cookie(PyStr("bili_jct"), PyStr("v1")),
                          Cookie(PyStr("bili_jct"), PyStr("v2"))>>
    /\ Get(ret.val, "cookies") = PyDict(D1("bili_jct", PyStr("v2")))
    /\ Get(Get(ret.val, "raw_token_info"), "scope") = PyNone

-----------------------------------------------------------------------------
(* The order of the login flow's steps.                                    *)

\* the positions of a run of the login flow, in the order of the code:
\* INIT (up to the key fetch), KEY_FETCHED (send_sms), SMS_SENT (after_sms),
\* CAPTCHA_REQUIRED (sms_retry), SMS_SENT or SMS_RETRIED (check_sms),
\* the submission (login), LOGIN_SUBMITTED (after_login),
\* CREDENTIALS_SAVED (done), and the end of a failed run (exit)
FlowRank(p) ==
    CASE p = "main" -> 0
      [] p = "parse_args" -> 1
      [] p = "dispatch" -> 2
      [] p = "run_sms_login" -> 3
      [] p = "get_web_key" -> 4
      [] p = "key_fallback" -> 5
      [] p = "send_sms" -> 6
      [] p = "after_sms" -> 7
      [] p = "sms_retry" -> 8
      [] p = "check_sms" -> 9
      [] p = "login" -> 10
      [] p = "after_login" -> 11
      [] p = "done" -> 12
      [] p = "exit" -> 13
      [] OTHER -> 3

\* the stage of an exchange: key fetch, SMS send, login
Stage(e) ==
    CASE e.api \in {"getWebKey", "getWebKey(fallback)"} -> 1
      [] e.api = "sendSmsCode" -> 2
      [] e.api = "loginBySms" -> 3
      [] OTHER -> 4

\* the run is one of the login flow
InLoginFlow ==
    script = "sms_login" /\ ConfirmCalls = <<>> /\ pc # "run_qr_confirm"

\* the exchanges so far are in the order of the flow, each request is made
\* at its step only, and what a step needs has been obtained before it
FlowInOrder ==
    InLoginFlow =>
      /\ \A i \in 1..Len(net) : \A j \in (i + 1)..Len(net) : Stage(net[i]) <= Stage(net[j])
      /\ Len(KeyCalls) <= 2 /\ Len(SmsCalls) <= 2 /\ Len(LoginCalls) <= 1
      /\ Len(KeyCalls) = 2 =>
            KeyCalls[1].api = "getWebKey" /\ KeyCalls[2].api = "getWebKey(fallback)"
      /\ KeyCalls # <<>> => FlowRank(pc) > FlowRank("get_web_key")
      /\ SmsCalls # <<>> =>
            LET k == KeyCalls[Len(KeyCalls)]
            IN /\ FlowRank(pc) > FlowRank("send_sms")
               /\ KeyCalls # <<>>
               /\ k.resp.json # NotJson
               /\ Get(k.resp.json, "code") = PyInt(0)
               /\ key_data = Get(k.resp.json, "data")
      /\ Len(SmsCalls) = 2 => FlowRank(pc) > FlowRank("sms_retry")
      /\ LoginCalls # <<>> =>
            LET sent == SmsCalls[Len(SmsCalls)].resp.json
                form == LoginCalls[1].data
            IN /\ FlowRank(pc) > FlowRank("login")
               /\ SmsCalls # <<>>
               /\ sent # NotJson
               /\ Get(sent, "code") = PyInt(0)
               /\ Truthy(Get(DataOf(sent), "captcha_key"))
               /\ form["captcha_key"] = Str(Get(DataOf(sent), "captcha_key"))
               /\ form["dt"] = "RSA(" \o Str(Get(key_data, "key")) \o ")%3D"
               /\ form["tel"] = Str(tel) /\ form["code"] = Str(sms_code)
      /\ writes > 0 =>
            /\ pc = "done" /\ writes = 1 /\ Len(LoginCalls) = 1
            /\ LoginCalls[1].resp.json # NotJson
            /\ Get(LoginCalls[1].resp.json, "code") = PyInt(0)

\* a step's failure has ended the run: an error is held exactly at the end of
\* a failed run, and a response that fails its step is the last exchange,
\* with the run over or, for a login response, about to be checked
FailureEndsRun ==
    InLoginFlow =>
      /\ (err # NoErr) <=> (pc = "exit")
      /\ \A i \in 1..Len(net) :
            ( \/ net[i].resp.json = NotJson /\ (net[i].api # "getWebKey" \/ net[i].resp.status = 200)
              \/ /\ net[i].resp.json # NotJson
                 /\ Get(net[i].resp.json, "code") # PyInt(0)
                 /\ net[i].api \in {"getWebKey(fallback)", "loginBySms"} )
            => /\ i = Len(net) /\ writes = 0
               /\ pc = "exit" \/ (pc = "after_login" /\ net[i].resp.json # NotJson)
      /\ ( /\ SmsCalls # <<>> /\ pc \notin {"after_sms", "sms_retry", "check_sms"}
           /\ LET sent == SmsCalls[Len(SmsCalls)].resp.json
              IN sent # NotJson /\
                 (Get(sent, "code") # PyInt(0) \/ ~Truthy(Get(DataOf(sent), "captcha_key"))) )
         => (pc = "exit" /\ LoginCalls = <<>> /\ writes = 0)

\* a step of a run of the login flow moves forward in the order of the
\* steps, and no step is taken once the run has failed or has saved
StepForward ==
    InLoginFlow =>
      /\ pc \notin {"exit", "done"}
      /\ FlowRank(pc') > FlowRank(pc)
      /\ pc' = "exit" => (net' = net \/ Len(net') = Len(net) + 1) /\ writes' = writes
      /\ pc = "sms_retry" => pc' \in {"check_sms", "exit"}
      /\ pc = "after_sms" => pc' \in {"sms_retry", "check_sms"}

\* C11: the login flow visits its steps only in the order INIT, KEY_FETCHED,
\* SMS_SENT, optionally CAPTCHA_REQUIRED then SMS_RETRIED, LOGIN_SUBMITTED,
\* CREDENTIALS_SAVED: no SMS send is made before the key fetch has returned
\* from a response of code 0, the login request is submitted only after an
\* SMS-send response of code 0 carrying a captcha_key, with that captcha_key
\* and the fetched public key, and a failure at a step ends the run with no
\* later step performed.
C11_FlowOrder ==
    /\ [](FlowInOrder /\ FailureEndsRun)
    /\ [][StepForward]_vars

\* C11 witness: a run went through every step, the fallback key fetch and
\* the retried send included, and saved the credentials
C11_Witness ==
    /\ script = "sms_login" /\ pc = "done" /\ writes = 1
    /\ Len(KeyCalls) = 2 /\ Len(SmsCalls) = 2 /\ Len(LoginCalls) = 1
    /\ LoginCalls[1].data["captcha_key"] = "CK"

=============================================================================
